---- MODULE Spec2Model ----
(***************************************************************************)
(* The game engine of gpui-snake (src/src/main.rs, struct SnakeGame): the  *)
(* snake body, the active and the pending direction, the food cell, the    *)
(* status, the score and the high score, driven by the four intents the    *)
(* window dispatches into it: handle_turn, handle_toggle_pause,            *)
(* handle_restart and tick; and the scheduler loop (spawn_game_loop) that   *)
(* reads tick_delay, waits and invokes tick.                               *)
(***************************************************************************)
EXTENDS Integers, Sequences, FiniteSets, TLC

\* ------------------------------------------------------------------------
\* Program constants (main.rs:12-13).
GRID_WIDTH == 24
GRID_HEIGHT == 20
\* main.rs:15-17
BASE_TICK_MS == 150
MIN_TICK_MS == 70
SPEED_STEP_MS == 4

\* Bounds of the exploration.
\* Within the first MaxTicks Running ticks up to MaxTurns changes of the
\* pending direction are explored (Up, Left, Down folds the snake onto its
\* own tail in four ticks); runs of up to MaxRun ticks are explored with at
\* most MaxRunTurns changes (12 straight ticks reach the right wall).
MaxTicks == 4
MaxTurns == 3
MaxRun == 12
MaxRunTurns == 0
\* MaxDelayScore: the scores tick_delay is evaluated on (from 152 on the
\* subtraction saturates; the board holds at most 476 points).
MaxDelayScore == 160
\* DrawSpread: the generator's draws are enumerated over two values of each
\* range, its middle and the value DrawSpread above the middle.
DrawSpread == 1
\* MaxSchedScore: the score of the game in progress the loop may be spawned
\* on (the first speed-up comes at 4 points).
MaxSchedScore == 3

\* ------------------------------------------------------------------------
\* enum Direction, enum GameStatus
Direction == {"Up", "Down", "Left", "Right"}
GameStatus == {"Ready", "Running", "Paused", "GameOver"}

VARIABLES
    snake,           \* VecDeque<Cell>, head first
    direction,       \* the active direction
    next_direction,  \* the pending direction
    food,            \* Cell
    state,           \* GameStatus
    score,           \* u32 (at most one point per free cell: no overflow)
    high_score,      \* u32
    intent,          \* the last intent dispatched: [op, arg] and the status
                     \* it found the engine in (from)
    travel,          \* history: the sum of the direction vectors committed
                     \* by the ticks that moved the snake since it was built
    committed,       \* history: the direction the latest Running tick
                     \* committed ("-" before the first one)
    ticks,           \* Running ticks taken so far
    turns,           \* changes of the pending direction so far
    pc,              \* spawn_game_loop: where the loop task stands
    alive,           \* spawn_game_loop: whether the handle still resolves
    delay            \* spawn_game_loop: the duration of the current wait, ms

engine == <<snake, direction, next_direction, food, state, score, high_score>>
sched == <<pc, alive, delay>>
vars == <<snake, direction, next_direction, food, state, score, high_score,
          intent, travel, committed, ticks, turns, pc, alive, delay>>

\* struct Cell { x, y }
Cell(x, y) == [x |-> x, y |-> y]

\* Direction::vector
vector(d) ==
    CASE d = "Up" -> <<0, -1>>
      [] d = "Down" -> <<0, 1>>
      [] d = "Left" -> <<-1, 0>>
      [] d = "Right" -> <<1, 0>>

\* Cell::offset
offset(cell, d) == Cell(cell.x + vector(d)[1], cell.y + vector(d)[2])

is_opposite_one_way(self, other) ==
    \/ (self = "Up" /\ other = "Down")
    \/ (self = "Left" /\ other = "Right")
    \/ (self = "Right" /\ other = "Left")

\* Direction::is_opposite
is_opposite(self, other) ==
    \/ (self = "Up" /\ other = "Down")
    \/ (self = "Down" /\ other = "Up")
    \/ (self = "Left" /\ other = "Right")
    \/ (self = "Right" /\ other = "Left")

\* VecDeque::contains
contains(body, cell) == \E i \in 1..Len(body) : body[i] = cell

build_initial_snake_left_of_middle(width, height) ==
    [offs \in 1..4 |-> Cell((width \div 2) - offs, height \div 2)]

\* SnakeGame::build_initial_snake: four cells pushed at the back, the first
\* at (width / 2, height / 2), each next one step to the left.
build_initial_snake(width, height) ==
    [offs \in 1..4 |-> Cell((width \div 2) - (offs - 1), height \div 2)]

\* rng.gen_range(lo..hi): the values the generator may return, enumerated
\* at the middle of the range and DrawSpread above it.
gen_range(lo, hi) ==
    {v \in lo..(hi - 1) : v - ((lo + hi) \div 2) \in {0, DrawSpread}}

random_food_unchecked(body, width, height) ==
    {Cell(x, y) : x \in gen_range(0, width), y \in gen_range(0, height)}

\* SnakeGame::random_food: the cells the rejection loop may return, i.e. the
\* drawn cells that are not on the snake.
random_food(body, width, height) ==
    {c \in {Cell(x, y) : x \in gen_range(0, width), y \in gen_range(0, height)} :
        ~contains(body, c)}

\* SnakeGame::board_contains
board_contains(cell) ==
    /\ cell.x \in 0..(GRID_WIDTH - 1)
    /\ cell.y \in 0..(GRID_HEIGHT - 1)

\* The engine alone: the intents in any order, the loop task not spawned.
NoLoop == pc = "off" /\ alive = TRUE /\ delay = 0

\* SnakeGame::new: Ready, the initial snake, a random food cell, score 0.
Init ==
    /\ snake = build_initial_snake(GRID_WIDTH, GRID_HEIGHT)
    /\ food \in random_food(build_initial_snake(GRID_WIDTH, GRID_HEIGHT),
                            GRID_WIDTH, GRID_HEIGHT)
    /\ direction = "Right"
    /\ next_direction = "Right"
    /\ state = "Ready"
    /\ score = 0
    /\ high_score = 0
    /\ intent = [op |-> "new", arg |-> "-", from |-> "-"]
    /\ travel = <<0, 0>>
    /\ committed = "-"
    /\ ticks = 0
    /\ turns = 0
    /\ NoLoop

\* The explored region of (ticks, turns).
may_tick == ticks < MaxTicks \/ (turns <= MaxRunTurns /\ ticks < MaxRun)
may_turn == turns < MaxTurns /\ (ticks <= MaxTicks \/ turns < MaxRunTurns)

Dispatch(op, arg) == intent' = [op |-> op, arg |-> arg, from |-> state]

\* ------------------------------------------------------------------------
\* turn

queue_direction_drops_pending(d) ==
    \/ state \in {"GameOver", "Ready"}
    \/ (is_opposite(d, next_direction) /\ Len(snake) > 1)

\* SnakeGame::queue_direction: the two early returns.
queue_direction_drops(d) ==
    \/ state \in {"GameOver", "Ready"}
    \/ (is_opposite(d, direction) /\ Len(snake) > 1)

\* SnakeGame::handle_turn(direction) = queue_direction(direction)
handle_turn(d) ==
    /\ Dispatch("turn", d)
    /\ IF queue_direction_drops(d)
       THEN UNCHANGED <<next_direction, turns>>
       ELSE /\ (d # next_direction => may_turn)
            /\ next_direction' = d
            /\ turns' = IF d # next_direction THEN turns + 1 ELSE turns
    /\ UNCHANGED <<snake, direction, food, state, score, high_score, travel,
                   committed, ticks>>

\* ------------------------------------------------------------------------
\* toggle_pause

toggle_pause_sticky(s) ==
    CASE s = "Running" -> "Paused"
      [] OTHER -> s

\* SnakeGame::toggle_pause
toggle_pause(s) ==
    CASE s = "Running" -> "Paused"
      [] s = "Paused" -> "Running"
      [] OTHER -> s

\* SnakeGame::handle_toggle_pause
handle_toggle_pause ==
    /\ Dispatch("toggle_pause", "-")
    /\ state' = IF state \in {"Running", "Paused"} THEN toggle_pause(state) ELSE state
    /\ UNCHANGED <<snake, direction, next_direction, food, score, high_score,
                   travel, committed, ticks, turns>>

\* ------------------------------------------------------------------------
\* restart

reset_keeps_direction(f) ==
    [snake |-> build_initial_snake(GRID_WIDTH, GRID_HEIGHT),
     direction |-> direction,
     next_direction |-> "Right",
     state |-> "Ready",
     score |-> 0,
     food |-> f]

\* SnakeGame::reset: the fields it assigns, f being the cell random_empty_cell
\* returns (high_score is not assigned)
reset(f) ==
    [snake |-> build_initial_snake(GRID_WIDTH, GRID_HEIGHT),
     direction |-> "Right",
     next_direction |-> "Right",
     state |-> "Ready",
     score |-> 0,
     food |-> f]

restart_resets_unless_ready(s) == s # "Ready"

restart_resets_unless_paused(s) == s # "Paused"

\* SnakeGame::handle_restart: the arms of the match that call reset
restart_resets(s) == s \in {"Running", "GameOver"}

handle_restart_keeps_reset_status ==
    /\ Dispatch("restart", "-")
    /\ IF restart_resets(state)
       THEN \E f \in random_food(build_initial_snake(GRID_WIDTH, GRID_HEIGHT),
                                 GRID_WIDTH, GRID_HEIGHT) :
               /\ snake' = reset(f).snake
               /\ direction' = reset(f).direction
               /\ next_direction' = reset(f).next_direction
               /\ score' = reset(f).score
               /\ food' = reset(f).food
               /\ state' = reset(f).state
               /\ travel' = <<0, 0>>
               /\ UNCHANGED high_score
       ELSE /\ state' = "Running"
            /\ UNCHANGED <<snake, direction, next_direction, food, score,
                           high_score, travel>>
    /\ UNCHANGED <<committed, ticks, turns>>

\* SnakeGame::handle_restart: every arm ends with state = Running; reset
\* draws the food on the rebuilt snake
handle_restart ==
    /\ Dispatch("restart", "-")
    /\ IF restart_resets(state)
       THEN \E f \in random_food(build_initial_snake(GRID_WIDTH, GRID_HEIGHT),
                                 GRID_WIDTH, GRID_HEIGHT) :
               /\ snake' = reset(f).snake
               /\ direction' = reset(f).direction
               /\ next_direction' = reset(f).next_direction
               /\ score' = reset(f).score
               /\ food' = reset(f).food
               /\ state' = "Running"
               /\ travel' = <<0, 0>>
               /\ UNCHANGED high_score
       ELSE /\ state' = "Running"
            /\ UNCHANGED <<snake, direction, next_direction, food, score,
                           high_score, travel>>
    /\ UNCHANGED <<committed, ticks, turns>>

\* ------------------------------------------------------------------------
\* tick

tick_idle_unless_paused(s) == s \notin {"Running", "Paused"}

\* SnakeGame::tick: the early return
tick_idle(s) == s # "Running"

collides_with_wall_only(body, next) == ~board_contains(next)

collides_after_pop(body, next) ==
    ~board_contains(next) \/ contains(SubSeq(body, 1, Len(body) - 1), next)

\* SnakeGame::tick: the collision test, on the body before any push or pop
collides(body, next) == ~board_contains(next) \/ contains(body, next)

\* VecDeque::push_front
push_front(body, cell) == <<cell>> \o body

pop_back_forgotten(body) == body

\* VecDeque::pop_back
pop_back(body) == SubSeq(body, 1, Len(body) - 1)

max_is_second(a, b) == b

\* u32::max
max(a, b) == IF a >= b THEN a ELSE b

tick_push_before_check ==
    /\ Dispatch("tick", "-")
    /\ IF tick_idle(state) \/ Len(snake) = 0
       THEN UNCHANGED <<snake, direction, next_direction, food, state, score,
                        high_score, travel, committed, ticks>>
       ELSE /\ may_tick
            /\ ticks' = ticks + 1
            /\ direction' = next_direction
            /\ committed' = next_direction
            /\ UNCHANGED next_direction
            /\ LET next == offset(Head(snake), next_direction) IN
               IF collides(snake, next)
               THEN /\ state' = "GameOver"
                    /\ snake' = push_front(snake, next)
                    /\ UNCHANGED <<food, score, high_score, travel>>
               ELSE /\ UNCHANGED state
                    /\ travel' = <<travel[1] + vector(next_direction)[1],
                                   travel[2] + vector(next_direction)[2]>>
                    /\ IF next = food
                       THEN /\ snake' = push_front(snake, next)
                            /\ score' = score + 1
                            /\ high_score' = max(high_score, score + 1)
                            /\ food' \in random_food(push_front(snake, next),
                                                     GRID_WIDTH, GRID_HEIGHT)
                       ELSE /\ snake' = pop_back(push_front(snake, next))
                            /\ UNCHANGED <<food, score, high_score>>
    /\ UNCHANGED turns

\* SnakeGame::tick
tick ==
    /\ Dispatch("tick", "-")
    /\ IF tick_idle(state) \/ Len(snake) = 0
       THEN UNCHANGED <<snake, direction, next_direction, food, state, score,
                        high_score, travel, committed, ticks>>
       ELSE /\ may_tick
            /\ ticks' = ticks + 1
            /\ direction' = next_direction
            /\ committed' = next_direction
            /\ UNCHANGED next_direction
            /\ LET next == offset(Head(snake), next_direction) IN
               IF collides(snake, next)
               THEN /\ state' = "GameOver"
                    /\ UNCHANGED <<snake, food, score, high_score, travel>>
               ELSE /\ UNCHANGED state
                    /\ travel' = <<travel[1] + vector(next_direction)[1],
                                   travel[2] + vector(next_direction)[2]>>
                    /\ IF next = food
                       THEN /\ snake' = push_front(snake, next)
                            /\ score' = score + 1
                            /\ high_score' = max(high_score, score + 1)
                            /\ food' \in random_food(push_front(snake, next),
                                                     GRID_WIDTH, GRID_HEIGHT)
                       ELSE /\ snake' = pop_back(push_front(snake, next))
                            /\ UNCHANGED <<food, score, high_score>>
    /\ UNCHANGED turns

Next ==
    \/ \E d \in Direction : handle_turn(d) /\ UNCHANGED sched
    \/ handle_toggle_pause /\ UNCHANGED sched
    \/ handle_restart /\ UNCHANGED sched
    \/ tick /\ UNCHANGED sched

Spec == Init /\ [][Next]_vars

\* ------------------------------------------------------------------------
\* tick_delay

wrapping_sub(a, b) == IF a >= b THEN a - b ELSE 2147483647 - (b - a)

\* u64::saturating_sub
saturating_sub(a, b) == IF a >= b THEN a - b ELSE 0

\* SnakeGame::tick_delay on self.score = s, in milliseconds (the product
\* of a u32 quotient and SPEED_STEP_MS fits the u64 it is computed in)
tick_delay(s) ==
    LET speedup == (s \div 4) * SPEED_STEP_MS
    IN  max(saturating_sub(BASE_TICK_MS, speedup), MIN_TICK_MS)

\* tick_delay evaluated over the scores 0..MaxDelayScore.  It reads
\* self.score alone, so the score is drawn and raised point by point while
\* the rest of the engine stays as constructed.
InitDelay ==
    /\ snake = build_initial_snake(GRID_WIDTH, GRID_HEIGHT)
    /\ food \in random_food(build_initial_snake(GRID_WIDTH, GRID_HEIGHT),
                            GRID_WIDTH, GRID_HEIGHT)
    /\ direction = "Right"
    /\ next_direction = "Right"
    /\ state = "Ready"
    /\ score \in 0..MaxDelayScore
    /\ high_score = score
    /\ intent = [op |-> "new", arg |-> "-", from |-> "-"]
    /\ travel = <<0, 0>>
    /\ committed = "-"
    /\ ticks = 0
    /\ turns = 0
    /\ NoLoop

\* a call of tick_delay
DelayRead ==
    /\ intent.op # "tick_delay"
    /\ Dispatch("tick_delay", "-")
    /\ delay' = tick_delay(score)
    /\ UNCHANGED <<snake, direction, next_direction, food, state, score,
                   high_score, travel, committed, ticks, turns, pc, alive>>

\* one more point on the score between two calls
DelayScoreUp ==
    /\ intent.op = "tick_delay"
    /\ score < MaxDelayScore
    /\ Dispatch("score", "-")
    /\ score' = score + 1
    /\ high_score' = score + 1
    /\ UNCHANGED <<snake, direction, next_direction, food, state, travel,
                   committed, ticks, turns, pc, alive, delay>>

NextDelay ==
    \/ DelayRead
    \/ DelayScoreUp

SpecDelay == InitDelay /\ [][NextDelay]_vars

\* ------------------------------------------------------------------------
\* spawn_game_loop: the detached task, one step per call on the handle.
\* pc is the task's position: "spawned" before its first poll, "read" right
\* after a tick (the loop goes round without yielding), "wait" at
\* Timer::after(delay).await, "done" after a break.  alive is whether the
\* handle still answers (read_with / update return Ok); delay is the
\* duration of the wait in progress, in milliseconds.

\* a mid-game snake worth s points: 4 + s cells in a row, head in the middle
running_snake(s) ==
    [i \in 1..(4 + s) |-> Cell((GRID_WIDTH \div 2) - (i - 1), GRID_HEIGHT \div 2)]

\* The task is spawned on the game as constructed, or on a game in progress
\* one point short of the first speed-up.
InitSched ==
    /\ score \in {0, MaxSchedScore}
    /\ high_score = score
    /\ snake = running_snake(score)
    /\ food \in random_food(running_snake(score), GRID_WIDTH, GRID_HEIGHT)
    /\ direction = "Right"
    /\ next_direction = "Right"
    /\ state = IF score = 0 THEN "Ready" ELSE "Running"
    /\ intent = [op |-> "new", arg |-> "-", from |-> "-"]
    /\ travel = <<0, 0>>
    /\ committed = "-"
    /\ ticks = 0
    /\ turns = 0
    /\ pc = "spawned"
    /\ alive = TRUE
    /\ delay = 0

SchedRead_cached ==
    /\ pc \in {"spawned", "read"}
    /\ IF alive
       THEN /\ Dispatch("tick_delay", "-")
            /\ delay' = IF delay = 0 THEN tick_delay(score) ELSE delay
            /\ pc' = "wait"
       ELSE /\ pc' = "done"
            /\ UNCHANGED <<intent, delay>>
    /\ UNCHANGED <<snake, direction, next_direction, food, state, score,
                   high_score, travel, committed, ticks, turns, alive>>

\* let delay = match game.read_with(cx, |game, _| game.tick_delay())
SchedRead ==
    /\ pc \in {"spawned", "read"}
    /\ IF alive
       THEN /\ Dispatch("tick_delay", "-")
            /\ delay' = tick_delay(score)
            /\ pc' = "wait"
       ELSE /\ pc' = "done"
            /\ UNCHANGED <<intent, delay>>
    /\ UNCHANGED <<snake, direction, next_direction, food, state, score,
                   high_score, travel, committed, ticks, turns, alive>>

SchedTick_unchecked ==
    /\ pc = "wait"
    /\ tick
    /\ pc' = "read"
    /\ UNCHANGED <<alive, delay>>

\* the timer fires: if game.update(cx, |game, cx| game.tick(cx)).is_err()
SchedTick ==
    /\ pc = "wait"
    /\ IF alive
       THEN /\ tick
            /\ pc' = "read"
            /\ UNCHANGED <<alive, delay>>
       ELSE /\ pc' = "done"
            /\ UNCHANGED <<snake, direction, next_direction, food, state,
                           score, high_score, intent, travel, committed,
                           ticks, turns, alive, delay>>

\* The task gives up the thread at Timer::after(delay).await and nowhere
\* else: the handlers of key intents run while it waits.
may_intent == alive /\ pc = "wait"

\* QuitGame, or the window going away: from now on the handle answers Err.
\* It comes while the task is not running: before its first poll or while
\* it waits.
Quit ==
    /\ alive /\ pc \in {"spawned", "wait"}
    /\ alive' = FALSE
    /\ UNCHANGED <<snake, direction, next_direction, food, state, score,
                   high_score, intent, travel, committed, ticks, turns, pc,
                   delay>>

NextSched ==
    \/ SchedRead
    \/ SchedTick
    \/ Quit
    \/ \E d \in Direction : may_intent /\ handle_turn(d) /\ UNCHANGED sched
    \/ may_intent /\ handle_toggle_pause /\ UNCHANGED sched
    \/ may_intent /\ handle_restart /\ UNCHANGED sched

SpecSched == InitSched /\ [][NextSched]_vars

TypeOK ==
    /\ state \in GameStatus
    /\ direction \in Direction
    /\ next_direction \in Direction
    /\ score \in Nat
    /\ high_score \in Nat

\* ------------------------------------------------------------------------
\* Properties.  A step is recognised by the intent it records: intent'.op is
\* the handler that takes the step and the unprimed variables are the engine
\* as that handler finds it.

InGrid(c) == 0 <= c.x /\ c.x < GRID_WIDTH /\ 0 <= c.y /\ c.y < GRID_HEIGHT
OnBody(body, c) == c \in {body[i] : i \in DOMAIN body}
Reverse(d) ==
    CASE d = "Up" -> "Down" [] d = "Down" -> "Up"
      [] d = "Left" -> "Right" [] d = "Right" -> "Left"
Step(d) ==
    CASE d = "Up" -> [x |-> 0, y |-> -1] [] d = "Down" -> [x |-> 0, y |-> 1]
      [] d = "Left" -> [x |-> -1, y |-> 0] [] d = "Right" -> [x |-> 1, y |-> 0]
\* the candidate head of a tick: the head moved by the pending direction
Candidate ==
    [x |-> Head(snake).x + Step(next_direction).x,
     y |-> Head(snake).y + Step(next_direction).y]
Blocked == ~InGrid(Candidate) \/ OnBody(snake, Candidate)
\* four cells in one row, each one step left of the one before it
CanonicalShape(body) ==
    /\ Len(body) = 4
    /\ \A i \in 1..3 : body[i + 1] = [x |-> body[i].x - 1, y |-> body[i].y]
    /\ \A i \in 1..4 : InGrid(body[i])

\* C1: a tick that finds the status Ready, Paused or GameOver changes
\* nothing: snake, food, score, high score, both directions and the status
\* keep their values.
C1_IdleTickChangesNothing ==
    [][(intent'.op = "tick" /\ state \in {"Ready", "Paused", "GameOver"})
        => UNCHANGED engine]_vars

\* a tick taken while Paused with a turn buffered
C1_Witness ==
    intent.op = "tick" /\ intent.from = "Paused" /\ next_direction # direction

\* C2: a Running tick whose candidate head is outside the grid or on any
\* cell of the body before the tick (the tail cell included) sets the status
\* to GameOver and leaves snake, food, score and high score as they were.
C2_CollisionEndsGame ==
    [][(intent'.op = "tick" /\ state = "Running" /\ Blocked)
        => (state' = "GameOver" /\ UNCHANGED <<snake, food, score, high_score>>)]_vars

\* a Running tick ended the game on the tail cell the move would have vacated
C2_Witness ==
    /\ intent.op = "tick" /\ intent.from = "Running" /\ state = "GameOver"
    /\ [x |-> Head(snake).x + Step(direction).x,
        y |-> Head(snake).y + Step(direction).y] = snake[Len(snake)]

\* a Running tick ended the game on the wall
WallHit ==
    /\ intent.op = "tick" /\ intent.from = "Running" /\ state = "GameOver"
    /\ ~InGrid([x |-> Head(snake).x + Step(direction).x,
                y |-> Head(snake).y + Step(direction).y])

\* a Running tick ended the game on a body cell that is not the tail
BodyHit ==
    /\ intent.op = "tick" /\ intent.from = "Running" /\ state = "GameOver"
    /\ \E i \in 1..(Len(snake) - 1) :
          [x |-> Head(snake).x + Step(direction).x,
           y |-> Head(snake).y + Step(direction).y] = snake[i]

\* C3: a Running tick whose candidate head is not blocked and is the food
\* cell raises the score by exactly 1, makes the high score the larger of
\* the old high score and the new score, pushes the candidate at the head
\* and keeps the tail (length + 1), and leaves the food on a cell of the
\* grid that no cell of the grown snake occupies.
C3_EatingGrowsAndRelocates ==
    [][(intent'.op = "tick" /\ state = "Running" /\ ~Blocked /\ Candidate = food)
        => /\ score' = score + 1
           /\ high_score' = (IF high_score >= score' THEN high_score ELSE score')
           /\ Len(snake') = Len(snake) + 1
           /\ snake' = <<Candidate>> \o snake
           /\ InGrid(food')
           /\ ~OnBody(snake', food')]_vars

\* the first Running tick of a game ate the food right of the initial head:
\* the initial body is kept whole behind the new head
C3_Witness ==
    /\ intent.op = "tick" /\ intent.from = "Running" /\ state = "Running"
    /\ score = 1 /\ high_score >= 1
    /\ Len(snake) = 5
    /\ SubSeq(snake, 2, 5) = build_initial_snake(GRID_WIDTH, GRID_HEIGHT)

\* C4: a Running tick that is neither blocked nor eating leaves length,
\* food, score and high score unchanged and makes the body the candidate
\* head followed by the old body without its last cell; over any run of such
\* ticks the head is therefore displaced by the sum of the committed
\* direction vectors (travel) and the length stays what it was.
C4_MoveShiftsBody ==
    /\ [][(intent'.op = "tick" /\ state = "Running" /\ ~Blocked /\ Candidate # food)
           => /\ UNCHANGED <<food, score, high_score>>
              /\ Len(snake') = Len(snake)
              /\ snake' = <<Candidate>> \o SubSeq(snake, 1, Len(snake) - 1)
              /\ Head(snake').x = Head(snake).x + Step(direction').x
              /\ Head(snake').y = Head(snake).y + Step(direction').y]_vars
    /\ [](/\ Head(snake).x = (GRID_WIDTH \div 2) + travel[1]
          /\ Head(snake).y = (GRID_HEIGHT \div 2) + travel[2]
          /\ (score = 0 => Len(snake) = 4))

\* three ticks without food took the snake up, left and left: same length,
\* head displaced by (-2, -1)
C4_Witness ==
    /\ intent.op = "tick" /\ intent.from = "Running" /\ state = "Running"
    /\ score = 0 /\ Len(snake) = 4
    /\ travel = <<-2, -1>>
    /\ Head(snake) = [x |-> (GRID_WIDTH \div 2) - 2, y |-> (GRID_HEIGHT \div 2) - 1]

\* C5: turn(d) is dropped, changing nothing, exactly when the status is
\* Ready or GameOver or d is the reverse of the active direction with a body
\* longer than one cell; otherwise it sets the pending direction to d and
\* changes nothing else (a d that reverses only the pending direction is
\* accepted; snake and active direction never change).
C5_TurnGuard ==
    [][intent'.op = "turn"
        => IF \/ state \in {"Ready", "GameOver"}
              \/ (intent'.arg = Reverse(direction) /\ Len(snake) > 1)
           THEN UNCHANGED engine
           ELSE /\ next_direction' = intent'.arg
                /\ UNCHANGED <<snake, direction, food, state, score, high_score>>]_vars

\* a turn accepted while Paused that makes the pending direction differ
\* from the active one
C5_Witness ==
    /\ intent.op = "turn" /\ intent.from = "Paused" /\ state = "Paused"
    /\ next_direction = intent.arg /\ next_direction # direction

\* C6: restart while GameOver or Running leaves score 0, status Running,
\* both directions Right, the snake in the canonical 4-cell row (head
\* rightmost, as built at construction), the food on a grid cell off the
\* snake, and the high score as it was.
C6_RestartResets ==
    [][(intent'.op = "restart" /\ state \in {"GameOver", "Running"})
        => /\ score' = 0
           /\ state' = "Running"
           /\ direction' = "Right" /\ next_direction' = "Right"
           /\ CanonicalShape(snake')
           /\ snake' = build_initial_snake(GRID_WIDTH, GRID_HEIGHT)
           /\ InGrid(food') /\ ~OnBody(snake', food')
           /\ high_score' = high_score]_vars

\* a restart out of GameOver after at least one point was scored
C6_Witness ==
    /\ intent.op = "restart" /\ intent.from = "GameOver" /\ state = "Running"
    /\ score = 0 /\ high_score >= 1

\* C7 as stated: restart while Paused resets the game and enters Running
\* (score 0, the canonical initial snake, both directions Right).
C7_PausedRestartResets ==
    [][(intent'.op = "restart" /\ state = "Paused")
        => /\ score' = 0
           /\ CanonicalShape(snake')
           /\ snake' = build_initial_snake(GRID_WIDTH, GRID_HEIGHT)
           /\ direction' = "Right" /\ next_direction' = "Right"
           /\ state' = "Running"]_vars

\* C7, amended: restart while Paused only resumes: the status becomes
\* Running and snake, food, score, high score and both directions keep the
\* values the paused game had (no reset, no new food).
C7_PausedRestartResumes ==
    [][(intent'.op = "restart" /\ state = "Paused")
        => /\ state' = "Running"
           /\ UNCHANGED <<snake, direction, next_direction, food, score,
                          high_score>>]_vars

\* a restart out of Paused that resumed a game in progress: the snake has
\* left its initial cells and a point is on the board
C7_Witness ==
    /\ intent.op = "restart" /\ intent.from = "Paused" /\ state = "Running"
    /\ score >= 1
    /\ snake # build_initial_snake(GRID_WIDTH, GRID_HEIGHT)

\* C8: restart while Ready sets the status to Running and changes nothing
\* else: no rebuild of the snake and no new food draw.
C8_ReadyRestartStarts ==
    [][(intent'.op = "restart" /\ state = "Ready")
        => /\ state' = "Running"
           /\ UNCHANGED <<snake, food, score, high_score, direction,
                          next_direction>>]_vars

\* the start of the first game
C8_Witness ==
    intent.op = "restart" /\ intent.from = "Ready" /\ state = "Running"

\* C9: toggle_pause takes Running to Paused and Paused to Running and
\* leaves Ready and GameOver alone; it never changes snake, food, score,
\* high score or either direction, and a toggle that directly follows a
\* toggle taken in Running or Paused brings the status back.
C9_TogglePause ==
    [][intent'.op = "toggle_pause"
        => /\ state' = (CASE state = "Running" -> "Paused"
                          [] state = "Paused" -> "Running"
                          [] state = "Ready" -> "Ready"
                          [] state = "GameOver" -> "GameOver")
           /\ UNCHANGED <<snake, food, score, high_score, direction,
                          next_direction>>
           /\ (intent.op = "toggle_pause" /\ intent.from \in {"Running", "Paused"}
                 => state' = intent.from)]_vars

\* a toggle that resumed a paused game in which the snake has moved
C9_Witness ==
    /\ intent.op = "toggle_pause" /\ intent.from = "Paused" /\ state = "Running"
    /\ travel # <<0, 0>>

\* C10: the high score never decreases over any step (a restart that zeroes
\* the score keeps it), and always high_score >= score >= 0.
C10_HighScoreMonotonic ==
    /\ [][high_score' >= high_score]_vars
    /\ [](high_score >= score /\ score >= 0)

\* a restart zeroed a positive score and the high score is still there
C10_Witness ==
    /\ intent.op = "restart" /\ intent.from \in {"Running", "GameOver"}
    /\ score = 0 /\ high_score >= 2

\* the delay the speed rule gives for score s: base - floor(s / 4) * step,
\* not below zero, then not below the minimum
RuleDelay(s) ==
    LET cut == (s \div 4) * 4
        left == IF cut > 150 THEN 0 ELSE 150 - cut
    IN  IF left < 70 THEN 70 ELSE left

\* C11: for every score s tick_delay() is max(150 - floor(s/4) * 4, 70) with
\* the subtraction saturating at 0; it never falls below 70, it does not grow
\* when the score grows, and it is 110 ms at s = 40 and 70 ms at s = 100.
C11_TickDelayRule ==
    [][intent'.op = "tick_delay"
        => /\ delay' = RuleDelay(score)
           /\ delay' >= 70
           /\ (delay # 0 => delay' <= delay)
           /\ (score = 40 => delay' = 110)
           /\ (score = 100 => delay' = 70)]_vars

\* the delay read again at a score where the subtraction saturates
C11_Witness ==
    intent.op = "tick_delay" /\ score >= 152 /\ delay = 70 /\ high_score = score

\* the snake is as new or reset built it: nothing but turns, pauses and
\* idle ticks since
FreshlyBuilt ==
    \/ intent.op = "new"
    \/ (intent.op = "restart" /\ intent.from \in {"Running", "GameOver"})
\* the first Running tick since construction has been taken, it went Right
\* and found no food
FirstTickRight ==
    /\ intent.op = "tick" /\ intent.from = "Running"
    /\ ticks = 1 /\ direction = "Right" /\ score = 0
Row(xs, y) == [i \in 1..Len(xs) |-> [x |-> xs[i], y |-> y]]

\* C12 as stated: on the 24x20 grid the snake starts (construction, reset)
\* at [(11,10),(10,10),(9,10),(8,10)] moving Right, and the first Running
\* tick without food at (12,10) gives [(12,10),(11,10),(10,10),(9,10)],
\* status still Running.
C12_StartsAtEleven ==
    /\ GRID_WIDTH = 24 /\ GRID_HEIGHT = 20
    /\ (FreshlyBuilt => snake = Row(<<11, 10, 9, 8>>, 10) /\ direction = "Right")
    /\ (FirstTickRight /\ food # [x |-> 12, y |-> 10]
          => snake = Row(<<12, 11, 10, 9>>, 10) /\ state = "Running")

\* C12, amended: the snake starts at [(12,10),(11,10),(10,10),(9,10)]
\* moving Right (head at width / 2), and the first Running tick without
\* food at (13,10) gives [(13,10),(12,10),(11,10),(10,10)] (tail (9,10)
\* dropped), status still Running.
C12_StartsAtTwelve ==
    /\ GRID_WIDTH = 24 /\ GRID_HEIGHT = 20
    /\ (FreshlyBuilt => snake = Row(<<12, 11, 10, 9>>, 10) /\ direction = "Right")
    /\ (FirstTickRight
          => snake = Row(<<13, 12, 11, 10>>, 10) /\ state = "Running")

\* the first Running tick went Right over a cell without food
C12_Witness ==
    FirstTickRight /\ state = "Running" /\ Len(snake) = 4

Abs(n) == IF n < 0 THEN -n ELSE n

\* C13: in every state between intents the snake cells are pairwise
\* distinct, all inside the grid, and every two consecutive cells differ by
\* one unit step in exactly one coordinate.
C13_BodyWellFormed ==
    /\ \A i, j \in 1..Len(snake) : i # j => snake[i] # snake[j]
    /\ \A i \in 1..Len(snake) :
          0 <= snake[i].x /\ snake[i].x < GRID_WIDTH
          /\ 0 <= snake[i].y /\ snake[i].y < GRID_HEIGHT
    /\ \A i \in 1..(Len(snake) - 1) :
          Abs(snake[i].x - snake[i + 1].x) + Abs(snake[i].y - snake[i + 1].y) = 1

\* a snake that has grown and folded: it bends twice within its first four
\* cells
C13_Witness ==
    /\ Len(snake) >= 5
    /\ snake[1].x # snake[2].x /\ snake[2].y # snake[3].y /\ snake[3].x # snake[4].x

\* C14: in every reachable state, not only when it is placed, the food cell
\* is inside the grid and on no cell of the snake.
C14_FoodOffSnake ==
    /\ 0 <= food.x /\ food.x < GRID_WIDTH
    /\ 0 <= food.y /\ food.y < GRID_HEIGHT
    /\ \A i \in 1..Len(snake) : snake[i] # food

\* the snake ate, moved on and now passes next to the new food
C14_Witness ==
    /\ intent.op = "tick" /\ intent.from = "Running" /\ state = "Running"
    /\ score >= 1 /\ ticks >= 3
    /\ Abs(Head(snake).x - food.x) + Abs(Head(snake).y - food.y) = 1

\* C16: is_opposite is symmetric and holds exactly for Up/Down and
\* Left/Right: no direction is opposite to itself, Up is opposite to neither
\* Left nor Right.  Checked for every direction against the directions the
\* engine holds (each of the four is held in some state).
C16_OppositePairs ==
    \A a \in Direction : \A b \in {direction, next_direction} :
        /\ is_opposite(a, b) <=> is_opposite(b, a)
        /\ is_opposite(a, b) <=> {a, b} \in {{"Up", "Down"}, {"Left", "Right"}}
        /\ ~is_opposite(b, b)
        /\ (b \in {"Left", "Right"} => ~is_opposite("Up", b) /\ ~is_opposite(b, "Up"))

\* the guard used it: a turn straight back (Up while moving Down) was asked
\* of a running game and the pending direction is not Up
C16_Witness ==
    /\ intent.op = "turn" /\ intent.from = "Running"
    /\ intent.arg = "Up" /\ direction = "Down" /\ next_direction # "Up"

\* C17 as stated: a tick that ends in GameOver changes the status only:
\* snake, food, score, high score, active direction and pending direction
\* keep their values.
C17_GameOverTickChangesStatusOnly ==
    [][(intent'.op = "tick" /\ state = "Running" /\ state' = "GameOver")
        => UNCHANGED <<snake, food, score, high_score, direction,
                       next_direction>>]_vars

\* C17, amended: a tick that ends in GameOver changes the status and the
\* active direction only: the pending direction is committed as the active
\* one before the candidate is tested, while snake, food, score, high score
\* and pending direction keep their values (nothing is pushed or popped).
C17_GameOverTickCommitsDirectionOnly ==
    [][(intent'.op = "tick" /\ state = "Running" /\ state' = "GameOver")
        => /\ UNCHANGED <<snake, food, score, high_score, next_direction>>
           /\ direction' = next_direction]_vars

\* a tick ended the game on the first tick after a turn: the snake still
\* lies along the direction it had before, the active direction is the new one
C17_Witness ==
    /\ intent.op = "tick" /\ intent.from = "Running" /\ state = "GameOver"
    /\ direction = next_direction
    /\ Head(snake) # [x |-> snake[2].x + Step(direction).x,
                      y |-> snake[2].y + Step(direction).y]

\* C19: in every reachable state the snake is 4 + score cells long (4 as
\* built, one more with every point, never shorter), so it is never shorter
\* than 4 and the length-1 case of the turn guard does not arise.
C19_LengthIsFourPlusScore ==
    /\ Len(snake) = 4 + score
    /\ Len(snake) >= 4
    /\ ~(Len(snake) <= 1)

\* two points eaten, then the snake moved on without eating
C19_Witness ==
    /\ intent.op = "tick" /\ intent.from = "Running" /\ state = "Running"
    /\ score = 2 /\ Len(snake) = 6
    /\ \A i \in 1..Len(snake) :
          Abs(snake[i].x - food.x) + Abs(snake[i].y - food.y) >= 1
    /\ ticks >= 3

\* C20 as stated: the pending direction is never the reverse of the active
\* one, and the direction a tick commits is never the reverse of the
\* direction the previous tick committed, whatever intents came in between.
C20_NeverReversesPreviousTick ==
    /\ [](next_direction # Reverse(direction))
    /\ [][(intent'.op = "tick" /\ state = "Running" /\ committed # "-")
           => committed' # Reverse(committed)]_vars

\* C20, amended: the pending direction is never the reverse of the active
\* one, so the direction a tick commits is never the reverse of the active
\* direction it replaces; that active direction is the one the previous tick
\* committed, or Right when a reset came in between (a tick Left, a restart
\* and a tick Right do follow each other).
C20_NeverReversesActive ==
    /\ [](next_direction # Reverse(direction))
    /\ [](direction = committed \/ direction = "Right")
    /\ [][(intent'.op = "tick" /\ state = "Running")
           => /\ direction' # Reverse(direction)
              /\ committed' = direction']_vars

\* the snake has come round to Left in two ticks (Up, then Left)
C20_Witness ==
    /\ intent.op = "tick" /\ intent.from = "Running" /\ state = "Running"
    /\ direction = "Left" /\ committed = "Left"

\* C15: the loop ends silently once the handle is gone.  A step of the loop
\* that finds the handle invalid, at the delay read or at the tick, is the
\* exit and changes nothing else; after the exit the task never reads the
\* delay, waits or ticks again; while the handle is valid the task never
\* exits and goes read-delay, wait, tick, read-delay, ... in that order.
C15_LoopEndsWhenHandleGone ==
    /\ [][pc # "done"]_vars
    /\ [][(~alive /\ pc \in {"spawned", "read", "wait"})
           => /\ pc' = "done"
              /\ UNCHANGED <<engine, intent, delay, ticks, alive>>]_vars
    /\ [][pc' = "done" => ~alive]_vars
    /\ [][(alive /\ pc \in {"spawned", "read"} /\ pc' # pc)
           => /\ pc' = "wait"
              /\ intent'.op = "tick_delay"
              /\ UNCHANGED <<engine, ticks>>]_vars
    /\ [][(alive /\ alive' /\ pc = "wait" /\ pc' # pc)
           => /\ pc' = "read"
              /\ intent'.op = "tick"
              /\ UNCHANGED delay]_vars
    /\ [][intent'.op = "tick" => pc = "wait" /\ alive]_vars
    /\ [][(intent'.op = "tick_delay" /\ pc' = "wait")
           => pc \in {"spawned", "read", "wait"} /\ alive]_vars

\* the loop has gone round, then found the handle gone when its timer fired
C15_Witness ==
    /\ pc = "done" /\ ~alive
    /\ ticks >= 2 /\ delay > 0
    /\ intent.op # "tick"

\* C18: no cached delay.  The wait a delay read starts lasts
\* tick_delay() of the score at that moment, whatever the previous wait
\* lasted, so the score an eating tick or a restart left is the one the next
\* wait is computed from; the handlers of turn, pause and restart run only
\* while the task waits, never between a tick and the delay read after it.
C18_DelayReadFresh ==
    /\ [][(pc # "wait" /\ pc' = "wait")
           => /\ delay' = RuleDelay(score)
              /\ score' = score]_vars
    /\ [][(pc = "wait" /\ pc' = "wait") => delay' = delay]_vars
    /\ [][intent'.op = "tick" => pc = "wait" /\ pc' = "read"]_vars
    /\ [][(intent'.op \in {"turn", "toggle_pause", "restart"}
            /\ (intent' # intent \/ engine' # engine))
           => pc = "wait" /\ pc' = "wait"]_vars

\* an eating tick brought the score to 4 and a restart back to 0; the wait
\* that has just begun lasts the 150 ms of score 0, not the 146 of score 4
C18_Witness ==
    /\ pc = "wait" /\ intent.op = "tick_delay"
    /\ high_score = 4 /\ score = 0
    /\ delay = BASE_TICK_MS
    /\ ticks >= 2

\* C21: Ready is seen only before the first restart.  A Ready engine is the
\* engine as constructed (no restart, tick or turn has taken effect), no step
\* leads back to Ready once the status has left it (a restart that resets
\* ends in Running, not in the Ready that reset assigns), GameOver is entered
\* only by a tick from Running and left only by a restart.
C21_ReadyOnlyBeforeFirstRestart ==
    /\ [](state = "Ready"
           => /\ intent.op # "restart"
              /\ ticks = 0 /\ turns = 0 /\ committed = "-"
              /\ score = 0 /\ high_score = 0
              /\ snake = build_initial_snake(GRID_WIDTH, GRID_HEIGHT))
    /\ [][state # "Ready" => state' # "Ready"]_vars
    /\ [][intent'.op = "restart" => state' = "Running"]_vars
    /\ [][(state = "Ready" /\ state' # "Ready")
           => intent'.op = "restart"]_vars
    /\ [][(state # "GameOver" /\ state' = "GameOver")
           => intent'.op = "tick" /\ state = "Running"]_vars
    /\ [][(state = "GameOver" /\ state' # "GameOver")
           => intent'.op = "restart" /\ state' = "Running"]_vars

\* a restart has reset a finished game: the status is Running on the rebuilt
\* snake
C21_Witness ==
    /\ intent.op = "restart" /\ intent.from = "GameOver"
    /\ state = "Running" /\ score = 0
    /\ snake = build_initial_snake(GRID_WIDTH, GRID_HEIGHT)
    /\ ticks >= 1
====
